---- MODULE Spec2Model ----
(***************************************************************************)
(* Model of CausalNex/Preprocessing.py: the bin-count advisor              *)
(* (FeatureDiscretizationAnalyzer.suggest_bin_count) and the discretizer   *)
(* (Preprocessing.discretize_feature, Preprocessing.batch_discretize).     *)
(*                                                                         *)
(* Numbers.  Column values are integers; a missing entry (NaN) is the      *)
(* marker NaN.  Bin edges are exact rationals num/den with den > 0, plus   *)
(* an infinitesimal eps in {-1,0,1} that stands for a floating point       *)
(* rounding error of unknown sign on an interpolated quantile.             *)
(***************************************************************************)
EXTENDS Integers, Sequences, FiniteSets, TLC

VARIABLES data, call, ret, pc, result_data, todo

vars == <<data, call, ret, pc, result_data, todo>>

(* ------------------------------ bounds --------------------------------- *)
MaxLen == 3
MaxVal == 3
MaxBins == 4
MaxEdges == 2

(* ------------------------------ values --------------------------------- *)
NaN == -1

Vals == 0..MaxVal

SeqsUpTo(S, n) == UNION {[1..k -> S] : k \in 1..n}

isna(v) == v = NaN

dropna(col) == SelectSeq(col, LAMBDA v : ~isna(v))

Range(s) == {s[i] : i \in 1..Len(s)}

SeqMin(s) == CHOOSE v \in Range(s) : \A w \in Range(s) : v <= w

SeqMax(s) == CHOOSE v \in Range(s) : \A w \in Range(s) : v >= w

Abs(v) == IF v < 0 THEN -v ELSE v

Rat(n, d) == [num |-> n, den |-> d, eps |-> 0]

RatLt(a, b) ==
    \/ a.num * b.den < b.num * a.den
    \/ a.num * b.den = b.num * a.den /\ a.eps < b.eps

RatEq(a, b) == a.num * b.den = b.num * a.den /\ a.eps = b.eps

RatLe(a, b) == RatLt(a, b) \/ RatEq(a, b)

(* The subsequence of s at the positions in I, in order. *)
Pick(s, I) ==
    LET f[k \in 0..Len(s)] ==
            IF k = 0 THEN <<>>
            ELSE IF k \in I THEN Append(f[k - 1], s[k]) ELSE f[k - 1]
    IN f[Len(s)]

(* ------------------------------ outcomes ------------------------------- *)
Raise == [err |-> TRUE, out |-> <<>>]

Return(v) == [err |-> FALSE, out |-> v]

(* --------------------------- pandas.cut -------------------------------- *)
(* nbins_to_bins without the 0.1% move of the outer edge. *)
nbins_to_bins_noadj(x, nbins, right) ==
    LET xs == dropna(x)
        mn == SeqMin(xs)
        mx == SeqMax(xs)
        d == 1000 * nbins
        w == IF mn # 0 THEN Abs(mn) ELSE 1
    IN IF mn = mx
       THEN [i \in 1..(nbins + 1) |->
                Rat(d * mn - nbins * w + 2 * w * (i - 1), d)]
       ELSE [i \in 1..(nbins + 1) |->
                Rat(d * mn + 1000 * (i - 1) * (mx - mn), d)]

(* nbins_to_bins widening a constant column's range upwards only. *)
nbins_to_bins_widen_up(x, nbins, right) ==
    LET xs == dropna(x)
        mn == SeqMin(xs)
        mx == SeqMax(xs)
        d == 1000 * nbins
        w == IF mn # 0 THEN Abs(mn) ELSE 1
        adj == (mx - mn) * nbins
    IN IF mn = mx
       THEN [i \in 1..(nbins + 1) |-> Rat(d * mn + w * (i - 1), d)]
       ELSE [i \in 1..(nbins + 1) |->
                IF right /\ i = 1 THEN Rat(d * mn - adj, d)
                ELSE IF ~right /\ i = nbins + 1 THEN Rat(d * mx + adj, d)
                ELSE Rat(d * mn + 1000 * (i - 1) * (mx - mn), d)]

(* _nbins_to_bins: nbins + 1 equally spaced edges over [min, max] of the   *)
(* non-missing values, as numerators over the denominator 1000 * nbins.    *)
(* min == max: the range is widened by 0.1% of |min| (0.001 when min is 0) *)
(* on both sides.  Otherwise the edge next to the open side is moved out   *)
(* by 0.1% of the range, so that the extreme value falls in a bin.         *)
nbins_to_bins(x, nbins, right) ==
    LET xs == dropna(x)
        mn == SeqMin(xs)
        mx == SeqMax(xs)
        d == 1000 * nbins
        w == IF mn # 0 THEN Abs(mn) ELSE 1
        adj == (mx - mn) * nbins
    IN IF mn = mx
       THEN [i \in 1..(nbins + 1) |->
                Rat(d * mn - nbins * w + 2 * w * (i - 1), d)]
       ELSE [i \in 1..(nbins + 1) |->
                IF right /\ i = 1 THEN Rat(d * mn - adj, d)
                ELSE IF ~right /\ i = nbins + 1 THEN Rat(d * mx + adj, d)
                ELSE Rat(d * mn + 1000 * (i - 1) * (mx - mn), d)]

(* algos.unique: the first occurrence of every edge, in order. *)
unique(bins) ==
    Pick(bins, {i \in 1..Len(bins) :
                    \A j \in 1..(i - 1) : ~RatEq(bins[j], bins[i])})

(* numpy searchsorted on sorted edges: the number of edges below v         *)
(* (side "left") or not above v (side "right").                            *)
searchsorted(bins, v, side) ==
    IF side = "left"
    THEN Cardinality({j \in 1..Len(bins) : RatLt(bins[j], v)})
    ELSE Cardinality({j \in 1..Len(bins) : RatLe(bins[j], v)})

(* _bins_to_cuts with labels=False: bucket id = searchsorted - 1; a value  *)
(* that is missing, or outside the edges, gets NaN.                        *)
bins_to_cuts(x, bins, right, include_lowest, duplicates) ==
    LET ub == unique(bins)
        dup == Len(ub) < Len(bins) /\ Len(bins) # 2
    IN IF dup /\ duplicates = "raise" THEN Raise
       ELSE LET b == IF dup THEN ub ELSE bins
                side == IF right THEN "left" ELSE "right"
                id(v) == IF include_lowest /\ RatEq(Rat(v, 1), b[1]) THEN 1
                         ELSE searchsorted(b, Rat(v, 1), side)
                cell(v) == IF isna(v) THEN NaN
                           ELSE IF id(v) = Len(b) \/ id(v) = 0 THEN NaN
                           ELSE id(v) - 1
            IN Return([i \in 1..Len(x) |-> cell(x[i])])

(* pd.cut(x, bins=<int>, labels=False) *)
pd_cut_nbins(x, nbins) ==
    bins_to_cuts(x, nbins_to_bins(x, nbins, TRUE), TRUE, FALSE, "raise")

(* pd.cut(x, bins=<sequence>, labels=False): the edges must not decrease. *)
pd_cut_edges(x, bins) ==
    IF \E i \in 1..(Len(bins) - 1) : RatLt(bins[i + 1], bins[i]) THEN Raise
    ELSE bins_to_cuts(x, bins, TRUE, FALSE, "raise")

(* --------------------------- pandas.qcut ------------------------------- *)
RECURSIVE GCD(_, _)
GCD(a, b) == IF b = 0 THEN a ELSE GCD(b, a % b)

RECURSIVE IsPow2(_)
IsPow2(n) == IF n = 1 THEN TRUE ELSE IF n % 2 # 0 THEN FALSE ELSE IsPow2(n \div 2)

(* The probability i/q is a binary fraction, so the float holds it exactly. *)
ExactProb(i, q) == IsPow2(q \div GCD(i, q))

(* The i-th of the q + 1 quantile edges of the sorted non-missing values   *)
(* sv: probability i/q, linear interpolation between order statistics.     *)
quantile(sv, i, q) ==
    LET m == Len(sv)
        p == ((m - 1) * i) \div q
        r == ((m - 1) * i) % q
        a == sv[p + 1]
        b == IF p + 2 <= m THEN sv[p + 2] ELSE sv[m]
    IN Rat(q * a + (b - a) * r, q)

(* The rounding errors the i-th quantile edge can carry.  With an inexact  *)
(* probability the interpolated edge is off by an error of either sign     *)
(* unless the order statistics it lies between are equal.                  *)
quantile_eps(sv, i, q) ==
    LET m == Len(sv)
        p == ((m - 1) * i) \div q
        r == ((m - 1) * i) % q
        a == sv[p + 1]
        b == IF p + 2 <= m THEN sv[p + 2] ELSE sv[m]
    IN IF ExactProb(i, q) THEN {0}
       ELSE IF r > 0 THEN (IF a # b THEN {-1, 0, 1} ELSE {0})
       ELSE {0} \cup (IF b # a THEN {1} ELSE {})
                \cup (IF p >= 1 /\ sv[p] # a THEN {-1} ELSE {})

(* pd.qcut(x, q, labels=False, duplicates='drop'): the outcomes. *)
pd_qcut(x, q) ==
    LET sv == SortSeq(dropna(x), <)
        errs == {ev \in [1..(q + 1) -> {-1, 0, 1}] :
                     \A i \in 1..(q + 1) : ev[i] \in quantile_eps(sv, i - 1, q)}
        bins(ev) == [i \in 1..(q + 1) |->
                        [quantile(sv, i - 1, q) EXCEPT !.eps = ev[i]]]
    IN {bins_to_cuts(x, bins(ev), TRUE, TRUE, "drop") : ev \in errs}

(* ------------------- sklearn KBinsDiscretizer (kmeans) ----------------- *)
(* KBinsDiscretizer(n_bins, encode='ordinal', strategy='kmeans')           *)
(* .fit_transform on one column.  It rejects n_bins < 2, a column with a   *)
(* missing entry, and fewer samples than clusters; a constant column maps  *)
(* to bucket 0.  Otherwise the bucket of a value is the number of interior *)
(* edges (midpoints of neighbouring sorted cluster centers) not above it.  *)
(* Where the centers end up is left open: every placement of the           *)
(* n_bins - 1 interior edges above the minimum, among the gaps of the      *)
(* sorted distinct values, is an outcome (an edge placed above the maximum *)
(* stands for an edge removed because its bin is too narrow).              *)
KBinsDiscretizer_kmeans(x, n_bins) ==
    IF n_bins < 2 \/ \E i \in 1..Len(x) : isna(x[i]) THEN {Raise}
    ELSE IF SeqMin(x) = SeqMax(x) THEN {Return([i \in 1..Len(x) |-> 0])}
    ELSE IF Len(x) < n_bins THEN {Raise}
    ELSE LET dv == SortSeq(Pick(x, {i \in 1..Len(x) :
                                \A j \in 1..(i - 1) : x[j] # x[i]}), <)
             rank(v) == CHOOSE k \in 1..Len(dv) : dv[k] = v
         IN {Return([i \in 1..Len(x) |->
                        Cardinality({e \in 1..(n_bins - 1) : t[e] < rank(x[i])})]) :
                t \in [1..(n_bins - 1) -> 1..Len(dv)]}

(* --------------------------- Preprocessing ----------------------------- *)
NoBins == [given |-> FALSE, edges |-> <<>>]

Bins(e) == [given |-> TRUE, edges |-> e]

(* Python truth value of custom_bins: None and the empty list are false. *)
Truthy(custom_bins) == custom_bins.given /\ Len(custom_bins.edges) > 0

(* Preprocessing.discretize_feature: the outcomes of one call. *)
discretize_feature(table, feature, method, n_bins, custom_bins) ==
    IF method = "equal_width"
    THEN {pd_cut_nbins(table[feature], n_bins)}
    ELSE IF method = "equal_frequency"
    THEN pd_qcut(table[feature], n_bins)
    ELSE IF method = "kmeans"
    THEN KBinsDiscretizer_kmeans(table[feature], n_bins)
    ELSE IF method = "custom" /\ Truthy(custom_bins)
    THEN {pd_cut_edges(table[feature], custom_bins.edges)}
    ELSE {Raise}

(* result_data aliasing the caller's table (no copy). *)
CallerTableAliased(table, result) == result

(* Preprocessing.batch_discretize, line 338: result_data is a copy, so an  *)
(* assignment to a column of result_data leaves the caller's table alone.  *)
CallerTable(table, result) == table

(* ---------------------- FeatureDiscretizationAnalyzer ------------------ *)
RECURSIVE Pow(_, _)
Pow(b, e) == IF e = 0 THEN 1 ELSE b * Pow(b, e - 1)

(* p/q >= r/s for positive q, s, by comparing continued fractions: no      *)
(* product of the four numbers is formed.                                  *)
RECURSIVE FracGe(_, _, _, _)
FracGe(p, q, r, s) ==
    IF p \div q # r \div s THEN p \div q > r \div s
    ELSE IF r % s = 0 THEN TRUE
    ELSE IF p % q = 0 THEN FALSE
    ELSE FracGe(s, r % s, q, p % q)

(* a^3 >= b^3 * n^5 for a >= 0, b > 0, n >= 1 *)
CubeGe(a, b, n) ==
    IF a >= b * n * n THEN TRUE
    ELSE IF a = 0 THEN FALSE
    ELSE FracGe(a * a, b * b * Pow(n, 5), b, a)

(* np.ceil(np.log2(n)): the least k >= k0 with 2^k >= n *)
RECURSIVE ceil_log2(_, _)
ceil_log2(n, k0) == IF Pow(2, k0) >= n THEN k0 ELSE ceil_log2(n, k0 + 1)

(* np.ceil(np.sqrt(n)): the least k >= k0 with k^2 >= n *)
RECURSIVE ceil_sqrt(_, _)
ceil_sqrt(n, k0) == IF k0 * k0 >= n THEN k0 ELSE ceil_sqrt(n, k0 + 1)

SeqSum(s) ==
    LET f[k \in 0..Len(s)] == IF k = 0 THEN 0 ELSE f[k - 1] + s[k]
    IN f[Len(s)]

(* 4 * np.percentile(s, 25 * j), j in 0..4, by linear interpolation. *)
percentile4(s, j) ==
    LET sv == SortSeq(s, <)
        m == Len(sv)
        p == ((m - 1) * j) \div 4
        r == ((m - 1) * j) % 4
        a == sv[p + 1]
        b == IF p + 2 <= m THEN sv[p + 2] ELSE sv[m]
    IN 4 * a + (b - a) * r

(* int(np.median(xs)): the middle element, or the mean of the two middle   *)
(* elements truncated; the median of no element is nan, and int(nan)       *)
(* raises ValueError.                                                      *)
int_median(xs) ==
    LET sv == SortSeq(xs, <)
        m == Len(sv)
    IN IF m = 0 THEN Raise
       ELSE IF m % 2 = 1 THEN Return(sv[(m + 1) \div 2])
       ELSE Return((sv[m \div 2] + sv[m \div 2 + 1]) \div 2)

MaxSuggestion == 64

(* np.ceil(R / h_scott), h_scott = 3.5 * std / n^(1/3), for R > 0: the     *)
(* least k >= k0 with k * 3.5 * std >= R * n^(1/3), that is with           *)
(* (49 k^2 D)^3 >= (4 R^2 (n-1))^3 * n^5, where D = n (n-1) std^2.         *)
(* Candidates above 50 are discarded by the caller: the search stops at    *)
(* MaxSuggestion.                                                          *)
RECURSIVE ceil_scott(_, _, _, _)
ceil_scott(D, R, n, k0) ==
    IF k0 >= MaxSuggestion \/ CubeGe(49 * k0 * k0 * D, 4 * R * R * (n - 1), n) THEN k0
    ELSE ceil_scott(D, R, n, k0 + 1)

(* np.ceil(R / h_fd), h_fd = 2 * iqr / n^(1/3) > 0: the least k >= k0 with *)
(* k * 2 * iqr >= R * n^(1/3), that is with (k * 4 iqr)^3 >= 8 R^3 n.      *)
RECURSIVE ceil_fd(_, _, _, _)
ceil_fd(iqr4, R, n, k0) ==
    IF k0 >= MaxSuggestion \/ Pow(k0 * iqr4, 3) >= 8 * R * R * R * n THEN k0
    ELSE ceil_fd(iqr4, R, n, k0 + 1)

(* suggest_bin_count(data_col) for a column without missing entries.       *)
(*   std (pandas, ddof = 1) is nan for n = 1 and 0 for equal values; then  *)
(*   (max - min) / h_scott is nan and int(nan) raises ValueError.          *)
(*   D = n * sum(x^2) - sum(x)^2 = n (n-1) std^2, R = max - min,           *)
(*   iqr4 = 4 * (q75 - q25).                                               *)
suggest_bin_count(data_col) ==
    LET n == Len(data_col)
        sturges == ceil_log2(n, 0) + 1
        R == SeqMax(data_col) - SeqMin(data_col)
        sq == SeqSum([i \in 1..n |-> data_col[i] * data_col[i]])
        D == n * sq - SeqSum(data_col) * SeqSum(data_col)
        scott_bins == ceil_scott(D, R, n, 0)
        iqr4 == percentile4(data_col, 3) - percentile4(data_col, 1)
        fd_bins == IF iqr4 > 0 THEN ceil_fd(iqr4, R, n, 0) ELSE sturges
        sqrt_bins == ceil_sqrt(n, 0)
        suggestions == <<sturges, scott_bins, fd_bins, sqrt_bins>>
        median_suggestion ==
            int_median(SelectSeq(suggestions, LAMBDA x : 3 <= x /\ x <= 50))
        clamp(v) == IF v > 20 THEN 20 ELSE IF v < 3 THEN 3 ELSE v
    IN IF n < 2 \/ D = 0 THEN Raise
       ELSE IF median_suggestion.err THEN Raise
       ELSE Return(clamp(median_suggestion.out))

(* ------------------------------ the calls ------------------------------ *)
Methods == {"equal_width", "equal_frequency", "kmeans", "custom", "bogus"}

DefaultBins == 5

(* Columns with at least one non-missing value. *)
Columns ==
    {c \in SeqsUpTo(Vals \cup {NaN}, MaxLen) : \E i \in 1..Len(c) : ~isna(c[i])}

(* The columns of the documented examples. *)
ExampleColumns ==
    { <<1, 2, 3, 4, 5, 6, 7, 8, 9, 10>>,
      <<1, 2, NaN, 4, 5>>,
      <<10, 10, 10, 10>> }

(* edge[i] = min + i * (max - min) / n_bins, i = 0..n_bins *)
EqualWidthEdges(x, n_bins) ==
    LET xs == dropna(x)
        mn == SeqMin(xs)
        mx == SeqMax(xs)
    IN [i \in 1..(n_bins + 1) |-> Rat(n_bins * mn + (i - 1) * (mx - mn), n_bins)]

IntEdges(e) == [i \in 1..Len(e) |-> Rat(e[i], 1)]

CustomChoices(x) ==
    {NoBins, Bins(<<>>)}
    \cup {Bins(IntEdges(e)) : e \in SeqsUpTo(Vals, MaxEdges)}
    \cup {Bins(EqualWidthEdges(x, n)) : n \in 1..MaxBins}
    \cup {Bins(nbins_to_bins(x, n, TRUE)) : n \in 1..MaxBins}

(* The configurations of one feature in a batch. *)
BatchVals == {0, 1}

BatchLen == 2

BatchConfigs ==
    {[method |-> m, n_bins |-> 2, custom_bins |-> NoBins] :
         m \in {"equal_width", "equal_frequency", "kmeans", "bogus"}}
    \cup {[method |-> "kmeans", n_bins |-> 1, custom_bins |-> NoBins],
          [method |-> "custom", n_bins |-> DefaultBins, custom_bins |-> NoBins],
          [method |-> "custom", n_bins |-> DefaultBins,
           custom_bins |-> Bins(IntEdges(<<0, 1>>))]}

BatchColumns(len) ==
    {c \in [1..len -> BatchVals \cup {NaN}] : \E i \in 1..len : ~isna(c[i])}

BatchTables ==
    UNION {[{"a", "b"} -> BatchColumns(len)] : len \in 1..BatchLen}

(* features_config: the (feature, configuration) items in iteration order. *)
FeaturesConfigs ==
    LET items == {[feature |-> f, config |-> c] : f \in {"a", "b", "c"}, c \in BatchConfigs}
    IN {<<>>} \cup {<<i>> : i \in items}
       \cup {p \in items \X items : p[1].feature # p[2].feature}

(* Columns without a missing entry: the argument of suggest_bin_count. *)
BinMaxLen == 5

BinColumns == SeqsUpTo(Vals, BinMaxLen) \cup {<<10, 10, 10, 10>>}

NoCall == [op |-> "none"]

NoRet == [err |-> FALSE, out |-> <<>>]

(* A caller holds a table and is about to call one of the operations. *)
Init ==
    /\ \/ /\ pc = "discretize_feature"
          /\ data \in {[f \in {"x"} |-> c] : c \in Columns \cup ExampleColumns}
       \/ /\ pc = "batch_discretize"
          /\ data \in BatchTables
       \/ /\ pc = "suggest_bin_count"
          /\ data \in {[f \in {"x"} |-> c] : c \in BinColumns}
    /\ call = NoCall
    /\ ret = NoRet
    /\ result_data = <<>>
    /\ todo = <<>>

(* One call discretize_feature(data, "x", method, n_bins, custom_bins),    *)
(* with any method, any n_bins (the default DefaultBins included) and      *)
(* custom_bins given only to the custom method.                            *)
DiscretizeFeature ==
    /\ pc = "discretize_feature"
    /\ \E method \in Methods, n_bins \in 1..MaxBins \cup {DefaultBins},
          custom_bins \in CustomChoices(data["x"]) :
         /\ method = "custom" \/ custom_bins = NoBins
         /\ call' = [op |-> "discretize_feature", table |-> data, feature |-> "x",
                     method |-> method, n_bins |-> n_bins, custom_bins |-> custom_bins]
         /\ \E o \in discretize_feature(data, "x", method, n_bins, custom_bins) :
              /\ ret' = o
              /\ pc' = IF o.err THEN "raised" ELSE "returned"
    /\ UNCHANGED <<data, result_data, todo>>

(* batch_discretize(data, features_config), lines 338-340: copy the table  *)
(* and start the loop over the items.                                      *)
BatchBegin ==
    /\ pc = "batch_discretize"
    /\ \E features_config \in FeaturesConfigs :
         /\ call' = [op |-> "batch_discretize", table |-> data,
                     features_config |-> features_config]
         /\ todo' = features_config
    /\ result_data' = data
    /\ pc' = "batch_loop"
    /\ UNCHANGED <<data, ret>>

(* One iteration, lines 340-347: a feature of the table is overwritten in  *)
(* the copy by discretize_feature of the caller's table; an error of       *)
(* discretize_feature ends the call; a feature not in the table is skipped.*)
BatchIter ==
    /\ pc = "batch_loop"
    /\ todo # <<>>
    /\ LET feature == Head(todo).feature
           config == Head(todo).config
       IN IF feature \in DOMAIN data
          THEN \E o \in discretize_feature(data, feature, config.method,
                                           config.n_bins, config.custom_bins) :
                 IF o.err
                 THEN /\ pc' = "raised"
                      /\ ret' = Raise
                      /\ UNCHANGED <<data, result_data, todo>>
                 ELSE /\ result_data' = [result_data EXCEPT ![feature] = o.out]
                      /\ data' = CallerTable(data, result_data')
                      /\ todo' = Tail(todo)
                      /\ UNCHANGED <<pc, ret>>
          ELSE /\ todo' = Tail(todo)
               /\ UNCHANGED <<data, result_data, pc, ret>>
    /\ UNCHANGED call

(* line 349: return result_data *)
BatchReturn ==
    /\ pc = "batch_loop"
    /\ todo = <<>>
    /\ ret' = Return(result_data)
    /\ pc' = "returned"
    /\ UNCHANGED <<data, call, result_data, todo>>

(* One call suggest_bin_count(data["x"]). *)
SuggestBinCount ==
    /\ pc = "suggest_bin_count"
    /\ call' = [op |-> "suggest_bin_count", data_col |-> data["x"]]
    /\ ret' = suggest_bin_count(data["x"])
    /\ pc' = IF ret'.err THEN "raised" ELSE "returned"
    /\ UNCHANGED <<data, result_data, todo>>

Next ==
    \/ DiscretizeFeature
    \/ BatchBegin
    \/ BatchIter
    \/ BatchReturn
    \/ SuggestBinCount

Spec == Init /\ [][Next]_vars

(* ------------------------------ properties ----------------------------- *)
DiscCall == call.op = "discretize_feature"

EqualWidthCall == DiscCall /\ call.method = "equal_width"

InputCol == call.table[call.feature]

Present(col) == {i \in 1..Len(col) : ~isna(col[i])}

ColMin(col) == SeqMin(dropna(col))

ColMax(col) == SeqMax(dropna(col))

StrictlyIncreasing(edges) ==
    \A i \in 1..(Len(edges) - 1) : RatLt(edges[i], edges[i + 1])

Strategies == {"equal_width", "equal_frequency", "kmeans", "custom"}

(* The index i of the interval [edge[i], edge[i+1]) that holds v, the last *)
(* interval also holding max; edge[i] = mn + i * (mx - mn) / n.            *)
HalfOpenBucket(v, mn, mx, n) ==
    IF v = mx THEN n - 1 ELSE ((v - mn) * n) \div (mx - mn)

(* C1 (as stated): suggest_bin_count returns normally on every non-empty   *)
(* column without missing entries, with a result in 3..20.                 *)
C1_BinCountInRange ==
    call.op = "suggest_bin_count" => ~ret.err /\ ret.out \in 3..20

(* C9 (as stated): on a degenerate column (fewer than 2 values, or all     *)
(* values equal) suggest_bin_count falls back and returns a result; it     *)
(* returns 3 for [10, 10, 10, 10].                                         *)
C9_DegenerateFallsBack ==
    /\ call.op = "suggest_bin_count"
    /\ Len(call.data_col) < 2 \/ SeqMin(call.data_col) = SeqMax(call.data_col)
    => /\ ~ret.err
       /\ call.data_col = <<10, 10, 10, 10>> => ret.out = 3

(* C2 (as stated): equal-width buckets lie in 0..n_bins-1, the column      *)
(* minimum gets bucket 0 and the column maximum bucket n_bins-1, on every  *)
(* column with a non-missing value.                                        *)
C2_Original ==
    EqualWidthCall =>
        /\ ~ret.err
        /\ \A i \in Present(InputCol) :
             /\ ret.out[i] \in 0..(call.n_bins - 1)
             /\ InputCol[i] = ColMin(InputCol) => ret.out[i] = 0
             /\ InputCol[i] = ColMax(InputCol) => ret.out[i] = call.n_bins - 1

(* C2 (amended): equal-width buckets lie in 0..n_bins-1; when the column   *)
(* has two distinct non-missing values its minimum gets bucket 0 and its   *)
(* maximum bucket n_bins-1; when all non-missing values are equal they all *)
(* get one and the same bucket.                                            *)
C2_Amended ==
    EqualWidthCall =>
        /\ ~ret.err
        /\ \A i \in Present(InputCol) :
             /\ ret.out[i] \in 0..(call.n_bins - 1)
             /\ ColMin(InputCol) < ColMax(InputCol) =>
                  /\ InputCol[i] = ColMin(InputCol) => ret.out[i] = 0
                  /\ InputCol[i] = ColMax(InputCol) => ret.out[i] = call.n_bins - 1
             /\ ColMin(InputCol) = ColMax(InputCol) =>
                  \A j \in Present(InputCol) : ret.out[j] = ret.out[i]

C2_Witness ==
    /\ EqualWidthCall
    /\ pc = "returned"
    /\ call.n_bins >= 3
    /\ ColMin(InputCol) < ColMax(InputCol)
    /\ \E i \in 1..Len(InputCol) : isna(InputCol[i])
    /\ \E i \in Present(InputCol) :
         ColMin(InputCol) < InputCol[i] /\ InputCol[i] < ColMax(InputCol)

(* C3 (as stated): with any of the four strategies, a column holding       *)
(* missing entries is discretized without failure, the output has the      *)
(* length of the input, it holds the missing marker exactly where the      *)
(* input is missing, and the other buckets are those of the column with    *)
(* its missing entries removed.  Only calls that succeed on the column     *)
(* with its missing entries removed are constrained, so a failure is due   *)
(* to the missing entry alone.                                             *)
C3_MissingPreserved ==
    /\ DiscCall
    /\ call.method \in Strategies
    /\ call.method = "custom" =>
         Truthy(call.custom_bins) /\ StrictlyIncreasing(call.custom_bins.edges)
    /\ \E i \in 1..Len(InputCol) : isna(InputCol[i])
    /\ \E o \in discretize_feature([f \in {"x"} |-> dropna(InputCol)], "x",
                                   call.method, call.n_bins, call.custom_bins) :
         ~o.err
    => /\ ~ret.err
       /\ Len(ret.out) = Len(InputCol)
       /\ \A i \in 1..Len(InputCol) : isna(ret.out[i]) <=> isna(InputCol[i])
       /\ \E o \in discretize_feature([f \in {"x"} |-> dropna(InputCol)], "x",
                                      call.method, call.n_bins, call.custom_bins) :
            ~o.err /\ o.out = Pick(ret.out, Present(InputCol))

(* C4 (as stated): the equal-width bucket of v is the index of the         *)
(* half-open interval [edge[i], edge[i+1]) holding v, the last interval    *)
(* also holding max; 1..10 with 5 bins gives [0,0,1,2,3,3,4,4,4,4].        *)
C4_HalfOpenIntervals ==
    EqualWidthCall /\ ColMin(InputCol) < ColMax(InputCol) =>
        /\ ~ret.err
        /\ \A i \in Present(InputCol) :
             ret.out[i] = HalfOpenBucket(InputCol[i], ColMin(InputCol),
                                         ColMax(InputCol), call.n_bins)
        /\ InputCol = <<1, 2, 3, 4, 5, 6, 7, 8, 9, 10>> /\ call.n_bins = 5 =>
             ret.out = <<0, 0, 1, 2, 3, 3, 4, 4, 4, 4>>

(* A custom call whose custom_bins are the n + 1 equal-width edges         *)
(* min + i * (max - min) / n of its column.                                *)
CustomEqualWidthCall(n) ==
    /\ DiscCall
    /\ call.method = "custom"
    /\ ColMin(InputCol) < ColMax(InputCol)
    /\ call.custom_bins = Bins(EqualWidthEdges(InputCol, n))

(* C5 (as stated): custom with the equal-width edges of n bins gives at    *)
(* every position the bucket equal_width gives with n bins, and the column *)
(* minimum gets bucket 0.                                                  *)
C5_CustomRoundTrip ==
    \A n \in 1..MaxBins :
        CustomEqualWidthCall(n) =>
            /\ ~ret.err
            /\ ret.out = pd_cut_nbins(InputCol, n).out
            /\ \A i \in Present(InputCol) :
                 InputCol[i] = ColMin(InputCol) => ret.out[i] = 0

(* C6 (as stated): discretize_feature fails on an unknown method, on       *)
(* custom without custom_bins or with empty custom_bins, and on custom     *)
(* with custom_bins that are not strictly increasing; it fails in no other *)
(* call with n_bins >= 1 on a column with two distinct non-missing values. *)
C6_FailureCases ==
    DiscCall =>
        /\ call.method \notin Strategies => ret.err
        /\ call.method = "custom" /\ ~Truthy(call.custom_bins) => ret.err
        /\ /\ call.method = "custom"
           /\ Truthy(call.custom_bins)
           /\ ~StrictlyIncreasing(call.custom_bins.edges)
           => ret.err
        /\ /\ call.method \in Strategies
           /\ call.method = "custom" =>
                Truthy(call.custom_bins) /\ StrictlyIncreasing(call.custom_bins.edges)
           /\ call.n_bins >= 1
           /\ ColMin(InputCol) < ColMax(InputCol)
           => ~ret.err

BatchCall == call.op = "batch_discretize"

Configured(f) ==
    {i \in 1..Len(call.features_config) : call.features_config[i].feature = f}

OutcomesOf(f, i) ==
    discretize_feature(call.table, f, call.features_config[i].config.method,
                       call.features_config[i].config.n_bins,
                       call.features_config[i].config.custom_bins)

(* C7: batch_discretize never changes the caller's table; when it returns, *)
(* the result has the columns of the input, a configured column of the     *)
(* input holds discretize_feature of the original input column, and every  *)
(* other column is the input column; it fails only when discretize_feature *)
(* fails on a configured column of the input, so a configured feature that *)
(* is not in the table neither fails nor adds a column.                    *)
C7_BatchFrame ==
    BatchCall =>
        /\ data = call.table
        /\ pc = "returned" =>
             /\ DOMAIN ret.out = DOMAIN call.table
             /\ \A f \in DOMAIN call.table :
                  IF Configured(f) = {}
                  THEN ret.out[f] = call.table[f]
                  ELSE \E i \in Configured(f) : \E o \in OutcomesOf(f, i) :
                          ~o.err /\ ret.out[f] = o.out
        /\ pc = "raised" =>
             \E f \in DOMAIN call.table : \E i \in Configured(f) :
                 Raise \in OutcomesOf(f, i)

(* A batch returned with a feature missing from the table configured, a    *)
(* column rewritten and a column passed through.                           *)
C7_Witness ==
    /\ BatchCall
    /\ pc = "returned"
    /\ Configured("c") # {}
    /\ Configured("a") # {}
    /\ Configured("b") = {}
    /\ ret.out["a"] # call.table["a"]
    /\ ret.out["b"] = call.table["b"]

(* C8: equal_width with n_bins = k + 1 on a column of integers 0..k that   *)
(* holds both 0 and k returns the column itself.                           *)
C8_Identity ==
    /\ EqualWidthCall
    /\ ColMin(InputCol) = 0
    /\ ColMax(InputCol) >= 1
    /\ call.n_bins = ColMax(InputCol) + 1
    => ~ret.err /\ ret.out = InputCol

C8_Witness ==
    /\ EqualWidthCall
    /\ pc = "returned"
    /\ ColMin(InputCol) = 0
    /\ ColMax(InputCol) >= 2
    /\ call.n_bins = ColMax(InputCol) + 1
    /\ \E i \in Present(InputCol) : 0 < InputCol[i] /\ InputCol[i] < ColMax(InputCol)
    /\ ret.out = InputCol

(* C10 (as stated): when all non-missing values are equal, equal_width     *)
(* gives every one of them bucket 0, for every n_bins >= 1.                *)
C10_Original ==
    EqualWidthCall /\ ColMin(InputCol) = ColMax(InputCol) =>
        ~ret.err /\ \A i \in Present(InputCol) : ret.out[i] = 0

(* C10 (amended): when all non-missing values are equal, equal_width gives *)
(* every one of them the middle bucket (n_bins - 1) div 2, which is bucket *)
(* 0 only for n_bins <= 2.                                                 *)
C10_Amended ==
    EqualWidthCall /\ ColMin(InputCol) = ColMax(InputCol) =>
        ~ret.err /\ \A i \in Present(InputCol) : ret.out[i] = (call.n_bins - 1) \div 2

C10_Witness ==
    /\ EqualWidthCall
    /\ pc = "returned"
    /\ ColMin(InputCol) = ColMax(InputCol)
    /\ call.n_bins >= 3
    /\ Cardinality(Present(InputCol)) >= 2
    /\ \A i \in Present(InputCol) : ret.out[i] = (call.n_bins - 1) \div 2

====
